---- MODULE Spec2Model ----
(***************************************************************************)
(* A model of the a2 APNs client: Client::send / Client::build_request     *)
(* (src/src/client.rs), Payload (src/src/request/payload.rs),              *)
(* PlainNotificationBuilder (src/src/request/notification/plain.rs) and    *)
(* the error taxonomy (src/src/error.rs).                                  *)
(*                                                                         *)
(* Text is modelled by TLA+ strings, processed character by character.     *)
(* Option<T> is modelled by None / Some(v).                                *)
(***************************************************************************)
EXTENDS Integers, Sequences, FiniteSets, TLC

VARIABLES endpoint,    \* Client.endpoint
          signer,      \* Client.signer : Option<Signer>
          now,         \* the wall clock, in epoch seconds
          signatures,  \* number of signatures computed so far by the Signer
          pc,          \* where the current send call is
          request,     \* the RequestBuilder held by the future of the call
          reply,       \* the wire reply of the call (status, apns-id header, body)
          outcome,     \* what the call's future resolved to
          sending,     \* the payload the unsent request was built from
          call,        \* bookkeeping of the current call (what it did)
          prevTok,     \* the token request answered before lastTok
          lastTok,     \* the last token request the Signer answered
          tokenRequests, \* the token requests of concurrent callers of the Signer
          inflight,    \* the concurrent send calls on the Client
          composing    \* the notification the caller is putting together

vars == <<endpoint, signer, now, signatures, pc, sending, request, reply,
          outcome, call, prevTok, lastTok, tokenRequests, inflight, composing>>

----------------------------------------------------------------------------
(* Bounds of the model *)

\* longest device token drawn
MaxTokenLen == 3
\* number of clock steps taken
MaxTicks == 3
\* number of concurrent token requests on the Signer
MaxRequesters == 2
\* number of concurrent send calls on the Client
MaxCalls == 2

----------------------------------------------------------------------------
(* Option<T> *)

None == [some |-> FALSE]
Some(x) == [some |-> TRUE, v |-> x]

----------------------------------------------------------------------------
(* Text *)

CharAt(s, i) == SubSeq(s, i, i)

Chars(s) == {CharAt(s, i) : i \in 1..Len(s)}

\* the two halves of a text of two characters or more
FirstHalf(s) == SubSeq(s, 1, Len(s) \div 2)
SecondHalf(s) == SubSeq(s, (Len(s) \div 2) + 1, Len(s))

Digits == "0123456789"

\* Display for unsigned integers (u64::to_string, format!("{}", usize))
RECURSIVE ToDecimal(_)
ToDecimal(n) ==
    IF n < 10 THEN CharAt(Digits, n + 1)
    ELSE ToDecimal(n \div 10) \o CharAt(Digits, (n % 10) + 1)

\* characters whose UTF-8 encoding takes two bytes
TwoByteChars == {"ö"}

\* number of bytes of the UTF-8 encoding of one character
Utf8Len(c) == IF c \in TwoByteChars THEN 2 ELSE 1

\* the length of a string counted in characters
CharCount(s) == Len(s)

\* str::len(): the length of a string in bytes, the sum over its characters
RECURSIVE StrLen(_)
StrLen(s) ==
    IF s = "" THEN 0
    ELSE IF Len(s) = 1 THEN Utf8Len(s)
    ELSE StrLen(FirstHalf(s)) + StrLen(SecondHalf(s))

\* the UTF-8 bytes of one character, percent-encoded
PercentEncode(c) ==
    CASE c = " "  -> "%20"
      [] c = "\"" -> "%22"
      [] c = "<"  -> "%3C"
      [] c = ">"  -> "%3E"
      [] c = "{"  -> "%7B"
      [] c = "}"  -> "%7D"
      [] c = "ö"  -> "%C3%B6"
      [] OTHER    -> c

----------------------------------------------------------------------------
(* Endpoint *)

Endpoints == {"Production", "Sandbox"}

\* impl Display for Endpoint with the hosts of the two variants exchanged
HostExchanged(e) ==
    IF e = "Sandbox" THEN "api.push.apple.com"
    ELSE "api.development.push.apple.com"

\* impl Display for Endpoint
Host(e) ==
    IF e = "Production" THEN "api.push.apple.com"
    ELSE "api.development.push.apple.com"

----------------------------------------------------------------------------
(* reqwest::Url::parse, for the inputs build_request gives it: the URL      *)
(* standard's parser for an https URL, and the serialization of its result. *)

C0ControlOrSpace == {" ", "\t", "\n", "\r"}
AsciiTabOrNewline == {"\t", "\n", "\r"}

FragmentEncodeSet == {" ", "\"", "<", ">", "ö"}
PathEncodeSet == FragmentEncodeSet \cup {"#", "?", "{", "}"}
QueryEncodeSet == {" ", "\"", "#", "<", ">", "ö"}

UrlEncode(c, set) == IF c \in set THEN PercentEncode(c) ELSE c

RECURSIVE UrlEncodeAll(_, _)
UrlEncodeAll(s, set) ==
    IF s = "" THEN ""
    ELSE IF Len(s) = 1 THEN UrlEncode(s, set)
    ELSE UrlEncodeAll(FirstHalf(s), set) \o UrlEncodeAll(SecondHalf(s), set)

RECURSIVE TrimStart(_)
TrimStart(s) ==
    IF s # "" /\ CharAt(s, 1) \in C0ControlOrSpace THEN TrimStart(Tail(s)) ELSE s

RECURSIVE TrimEnd(_)
TrimEnd(s) ==
    IF s # "" /\ CharAt(s, Len(s)) \in C0ControlOrSpace
    THEN TrimEnd(SubSeq(s, 1, Len(s) - 1)) ELSE s

RECURSIVE RemoveTabNewline(_)
RemoveTabNewline(s) ==
    IF s = "" THEN ""
    ELSE IF Len(s) = 1 THEN (IF s \in AsciiTabOrNewline THEN "" ELSE s)
    ELSE RemoveTabNewline(FirstHalf(s)) \o RemoveTabNewline(SecondHalf(s))

\* the index of the first character of s from index i on that is in set,
\* Len(s)+1 if none
FindFirst(s, set, i) ==
    LET hits == {j \in i..Len(s) : CharAt(s, j) \in set}
    IN  IF hits = {} THEN Len(s) + 1
        ELSE CHOOSE j \in hits : \A k \in hits : j <= k

IsSingleDot(seg) == seg \in {".", "%2e", "%2E"}
IsDoubleDot(seg) ==
    seg \in {"..", ".%2e", ".%2E", "%2e.", "%2E.", "%2e%2e", "%2E%2e", "%2e%2E", "%2E%2E"}

\* "shorten a URL's path": drop the last segment, if there is one
Shorten(segs) == IF Len(segs) = 0 THEN segs ELSE SubSeq(segs, 1, Len(segs) - 1)

\* the path state: rest is the input left, segs the path so far, buf the
\* segment being read; the result is the path and the input after it
RECURSIVE PathState(_, _, _)
PathState(rest, segs, buf) ==
    LET c == IF rest = "" THEN "" ELSE CharAt(rest, 1)
        slash == c \in {"/", "\\"}
        ends == rest = "" \/ c \in {"?", "#"}
        pushed == IF IsDoubleDot(buf)
                  THEN (IF slash THEN Shorten(segs) ELSE Append(Shorten(segs), ""))
                  ELSE IF IsSingleDot(buf)
                  THEN (IF slash THEN segs ELSE Append(segs, ""))
                  ELSE Append(segs, buf)
    IN  IF ends THEN [path |-> pushed, rest |-> rest]
        ELSE IF slash THEN PathState(Tail(rest), pushed, "")
        ELSE PathState(Tail(rest), segs, buf \o UrlEncode(c, PathEncodeSet))

RECURSIVE JoinPath(_)
JoinPath(segs) == IF Len(segs) = 0 THEN "" ELSE "/" \o Head(segs) \o JoinPath(Tail(segs))

\* Url::parse(input) followed by Display: the serialized URL, or "" when
\* the input is no https URL with a host
UrlParse(input) ==
    LET s == RemoveTabNewline(TrimEnd(TrimStart(input)))
        scheme == "https://"
        afterScheme == SubSeq(s, Len(scheme) + 1, Len(s))
        hostEnd == FindFirst(afterScheme, {"/", "\\", "?", "#"}, 1)
        host == SubSeq(afterScheme, 1, hostEnd - 1)
        afterHost == SubSeq(afterScheme, hostEnd, Len(afterScheme))
        \* the path start state skips one leading slash
        pathIn == IF afterHost # "" /\ CharAt(afterHost, 1) \in {"/", "\\"}
                  THEN Tail(afterHost) ELSE afterHost
        p == PathState(pathIn, <<>>, "")
        path == IF Len(p.path) = 0 THEN "/" ELSE JoinPath(p.path)
        hash == FindFirst(p.rest, {"#"}, 1)
        query == IF p.rest # "" /\ CharAt(p.rest, 1) = "?"
                 THEN "?" \o UrlEncodeAll(SubSeq(p.rest, 2, hash - 1), QueryEncodeSet)
                 ELSE ""
        fragment == IF hash <= Len(p.rest)
                    THEN "#" \o UrlEncodeAll(SubSeq(p.rest, hash + 1, Len(p.rest)),
                                             FragmentEncodeSet)
                    ELSE ""
    IN  IF Len(s) < Len(scheme) \/ SubSeq(s, 1, Len(scheme)) # scheme \/ host = ""
        THEN ""
        ELSE scheme \o host \o path \o query \o fragment

----------------------------------------------------------------------------
(* Result<T, Error> *)

Ok(x) == [ok |-> TRUE, v |-> x]
Err(e) == [ok |-> FALSE, e |-> e]

----------------------------------------------------------------------------
(* serde_json::Value and its compact serialization (serde_json::to_string). *)
(* An object is a map ordered by key (a BTreeMap).                          *)

JNull == [t |-> "null"]
JBool(b) == [t |-> "bool", b |-> b]
JNum(n) == [t |-> "num", n |-> n]
JStr(s) == [t |-> "str", s |-> s]
JArr(a) == [t |-> "arr", a |-> a]
JObj(m) == [t |-> "obj", m |-> m]

\* the characters of the model in the order of their first UTF-8 byte
ByteOrder == " \"#-./0123456789<>?ABCDEFGHIJKLMNOPQRSTUVWXYZ\\_abcdefghijklmnopqrstuvwxyz{}ö"

Ord(c) == FindFirst(ByteOrder, {c}, 1)

\* Ord for str: a < b, comparing byte by byte
RECURSIVE StrLess(_, _)
StrLess(a, b) ==
    IF b = "" THEN FALSE
    ELSE IF a = "" THEN TRUE
    ELSE IF CharAt(a, 1) = CharAt(b, 1) THEN StrLess(Tail(a), Tail(b))
    ELSE Ord(CharAt(a, 1)) < Ord(CharAt(b, 1))

\* BTreeMap<&str, Value>: the entries <<key, value>>, ordered by key
EmptyMap == <<>>

MapKeys(m) == {m[i][1] : i \in 1..Len(m)}

MapGet(m, k) == m[CHOOSE i \in 1..Len(m) : m[i][1] = k][2]

\* BTreeMap::insert: an entry under the same key is replaced
MapInsert(m, k, x) ==
    LET before == SelectSeq(m, LAMBDA e : StrLess(e[1], k))
        after == SelectSeq(m, LAMBDA e : StrLess(k, e[1]))
    IN  before \o <<(<<k, x>>)>> \o after

\* the map holding the fields of a record
RECURSIVE MapOfKeys(_, _)
MapOfKeys(f, keys) ==
    IF keys = {} THEN EmptyMap
    ELSE LET k == CHOOSE j \in keys : TRUE
         IN  MapInsert(MapOfKeys(f, keys \ {k}), k, f[k])

MapOf(f) == MapOfKeys(f, DOMAIN f)

\* serde_json's string escaping
JsonEscape(c) ==
    CASE c = "\"" -> "\\\""
      [] c = "\\" -> "\\\\"
      [] c = "\n" -> "\\n"
      [] c = "\r" -> "\\r"
      [] c = "\t" -> "\\t"
      [] OTHER    -> c

RECURSIVE JsonEscapeAll(_)
JsonEscapeAll(s) ==
    IF s = "" THEN ""
    ELSE IF Len(s) = 1 THEN JsonEscape(s)
    ELSE JsonEscapeAll(FirstHalf(s)) \o JsonEscapeAll(SecondHalf(s))

JsonQuote(s) == "\"" \o JsonEscapeAll(s) \o "\""

RECURSIVE JsonToString(_), JsonMembers(_), JsonElements(_)
JsonToString(val) ==
    CASE val.t = "null" -> "null"
      [] val.t = "bool" -> (IF val.b THEN "true" ELSE "false")
      [] val.t = "num"  -> ToDecimal(val.n)
      [] val.t = "str"  -> JsonQuote(val.s)
      [] val.t = "arr"  -> "[" \o JsonElements(val.a) \o "]"
      [] val.t = "obj"  -> "{" \o JsonMembers(val.m) \o "}"

JsonMembers(m) ==
    IF Len(m) = 0 THEN ""
    ELSE JsonQuote(m[1][1]) \o ":" \o JsonToString(m[1][2])
         \o (IF Len(m) > 1 THEN "," ELSE "") \o JsonMembers(Tail(m))

JsonElements(a) ==
    IF Len(a) = 0 THEN ""
    ELSE JsonToString(Head(a)) \o (IF Len(a) > 1 THEN "," ELSE "")
         \o JsonElements(Tail(a))

----------------------------------------------------------------------------
(* Payload and APS (request/payload.rs) *)

\* #[derive(Serialize)] for PlainAlert: title and subtitle are skipped when None
PlainAlertToValue(alert) ==
    LET keys == {"body"} \cup {k \in {"title", "subtitle"} : alert[k].some}
    IN  JObj(MapOf([k \in keys |-> IF k = "body" THEN JStr(alert.body)
                                    ELSE JStr(alert[k].v)]))

\* impl Serialize for InterruptionLevel
InterruptionLevelToValue(level) ==
    CASE level = "Passive"       -> JStr("passive")
      [] level = "Active"        -> JStr("active")
      [] level = "TimeSensitive" -> JStr("time-sensitive")
      [] level = "Critical"      -> JStr("critical")

\* the fields of APS and the names serde gives them (rename_all = "kebab-case")
ApsFields == {"alert", "badge", "sound", "content_available", "category",
              "mutable_content", "url_args", "interruption_level"}

KebabCase(field) ==
    CASE field = "content_available"  -> "content-available"
      [] field = "mutable_content"    -> "mutable-content"
      [] field = "url_args"           -> "url-args"
      [] field = "interruption_level" -> "interruption-level"
      [] OTHER                        -> field

ApsFieldToValue(field, x) ==
    CASE field = "alert"              -> PlainAlertToValue(x)
      [] field \in {"badge", "content_available", "mutable_content"} -> JNum(x)
      [] field \in {"sound", "category"} -> JStr(x)
      [] field = "url_args"           -> JArr([i \in 1..Len(x) |-> JStr(x[i])])
      [] field = "interruption_level" -> InterruptionLevelToValue(x)

\* #[derive(Serialize)] for APS: serde_json::to_value(&self.aps); every
\* field is skipped when it is None
ApsToValue(aps) ==
    LET present == {f \in ApsFields : aps[f].some}
        field(k) == CHOOSE f \in present : KebabCase(f) = k
    IN  JObj(MapOf([k \in {KebabCase(f) : f \in present}
                       |-> ApsFieldToValue(field(k), aps[field(k)].v)]))

\* Payload::to_json_string with the structured fields giving way to custom
\* data stored under "aps"
to_json_string_keeping_custom_aps(payload, serde) ==
    IF serde # "ok" THEN Err("SerializeError")
    ELSE LET data == IF "aps" \in MapKeys(payload.data) THEN payload.data
                     ELSE MapInsert(payload.data, "aps", ApsToValue(payload.aps))
         IN  Ok(JsonToString(JObj(data)))

\* Payload::to_json_string; serde is the result the serializer reports
to_json_string(payload, serde) ==
    IF serde # "ok" THEN Err("SerializeError")
    ELSE LET data == MapInsert(payload.data, "aps", ApsToValue(payload.aps))
         IN  Ok(JsonToString(JObj(data)))

----------------------------------------------------------------------------
(* NotificationOptions, as build_request reads it *)

\* Display for Priority
PriorityToString(priority) == IF priority = "High" THEN "10" ELSE "5"

----------------------------------------------------------------------------
(* reqwest::RequestBuilder, as build_request uses it *)

HeaderNames == {"content-type", "apns-priority", "apns-id", "apns-expiration",
                "apns-collapse-id", "apns-topic", "authorization", "content-length"}

\* a builder that holds an error instead of a request
InvalidBuilder ==
    [valid |-> FALSE, method |-> "", url |-> "",
     headers |-> [h \in HeaderNames |-> None], body |-> None]

\* HttpClient::post(url)
post(url) ==
    [valid |-> TRUE, method |-> "POST", url |-> url,
     headers |-> [h \in HeaderNames |-> None], body |-> None]

\* HeaderValue::from_bytes accepts every byte but the control characters
IsHeaderValue(text) == \A i \in 1..Len(text) : CharAt(text, i) \notin {"\n", "\r"}

\* RequestBuilder::header: a value that is no header value turns the
\* builder into an error, and an error stays one
header(builder, name, text) ==
    IF ~builder.valid THEN builder
    ELSE IF ~IsHeaderValue(text) THEN InvalidBuilder
    ELSE [builder EXCEPT !.headers[name] = Some(text)]

\* RequestBuilder::body
with_body(builder, text) ==
    IF builder.valid THEN [builder EXCEPT !.body = Some(text)] ELSE builder

----------------------------------------------------------------------------
(* Signer: the cached bearer token of token-auth mode *)

\* Client::token: the validity window of a signature, in seconds
signature_ttl == 60 * 55

\* Signer::new
new_signer(key_id, team_id, ttl) ==
    [key_id |-> key_id, team_id |-> team_id, expire_after |-> ttl, cache |-> None]

\* the token signed at time t: header claim (algorithm, key id), payload
\* claim (issuer, issued-at) and the signature, which differs between any
\* two signing operations (serial is the number of this one)
SignToken(sgn, t, serial) ==
    "ES256-" \o sgn.key_id \o "." \o sgn.team_id \o "-" \o ToDecimal(t)
             \o "." \o "sig" \o ToDecimal(serial)

\* the number a decimal text denotes
RECURSIVE FromDecimal(_)
FromDecimal(text) ==
    IF text = "" THEN 0
    ELSE 10 * FromDecimal(SubSeq(text, 1, Len(text) - 1))
         + (FindFirst(Digits, {CharAt(text, Len(text))}, 1) - 1)

\* the issued-at claim a token carries
IssuedAtClaim(token) ==
    LET dot1 == FindFirst(token, {"."}, 1)
        claims == SubSeq(token, dot1 + 1, FindFirst(token, {"."}, dot1 + 1) - 1)
        dash == FindFirst(claims, {"-"}, 1)
    IN  FromDecimal(SubSeq(claims, dash + 1, Len(claims)))

\* a cache whose token never expires
IsFreshForever(sgn, t) == sgn.cache.some

\* the cached token is there and its age is within the validity window
IsFresh(sgn, t) ==
    sgn.cache.some /\ t - sgn.cache.v.issued_at <= sgn.expire_after

\* Signer::with_signature at time t, after n signatures; sign is what the
\* signing operation reports if one is needed
with_signature(sgn, t, n, sign) ==
    IF IsFresh(sgn, t)
    THEN [result |-> Ok(sgn.cache.v.token), signer |-> sgn, signatures |-> n]
    ELSE IF sign # "ok"
    THEN [result |-> Err("SignerError"), signer |-> sgn, signatures |-> n]
    ELSE LET token == SignToken(sgn, t, n + 1)
         IN  [result |-> Ok(token),
              signer |-> [sgn EXCEPT !.cache = Some([token |-> token, issued_at |-> t])],
              signatures |-> n + 1]

----------------------------------------------------------------------------
(* Client::build_request *)

\* lines 129-130: the URL of the request
RequestUrl(ep, payload) ==
    UrlParse("https://" \o Host(ep) \o "/3/device/" \o payload.device_token)

SetPriority(builder, options) ==
    IF options.apns_priority.some
    THEN header(builder, "apns-priority", PriorityToString(options.apns_priority.v))
    ELSE builder

SetApnsId(builder, options) ==
    IF options.apns_id.some
    THEN header(builder, "apns-id", options.apns_id.v)
    ELSE builder

\* lines 142-144 with an expiration of 0 taken for "unset"
SetExpirationNonZero(builder, options) ==
    IF options.apns_expiration.some /\ options.apns_expiration.v > 0
    THEN header(builder, "apns-expiration", ToDecimal(options.apns_expiration.v))
    ELSE builder

SetExpiration(builder, options) ==
    IF options.apns_expiration.some
    THEN header(builder, "apns-expiration", ToDecimal(options.apns_expiration.v))
    ELSE builder

SetCollapseId(builder, options) ==
    IF options.apns_collapse_id.some
    THEN header(builder, "apns-collapse-id", options.apns_collapse_id.v.value)
    ELSE builder

SetTopic(builder, options) ==
    IF options.apns_topic.some
    THEN header(builder, "apns-topic", options.apns_topic.v)
    ELSE builder

\* lines 136-150: the optional headers, in the order the code sets them
SetOptions(builder, options) ==
    SetTopic(SetCollapseId(SetExpiration(SetApnsId(SetPriority(builder, options),
        options), options), options), options)

\* lines 152-156 without the "Bearer " prefix
SetAuthorizationBare(builder, signature) ==
    header(builder, "authorization", signature)

\* lines 152-156: the Authorization header from the signature
SetAuthorization(builder, signature) ==
    header(builder, "authorization", "Bearer " \o signature)

\* line 160 with the length counted in characters
SetContentLengthChars(builder, payload_json) ==
    header(builder, "content-length", ToDecimal(CharCount(payload_json)))

\* line 160: the Content-Length header from the serialized payload
SetContentLength(builder, payload_json) ==
    header(builder, "content-length", ToDecimal(StrLen(payload_json)))

\* lines 160-163
SetBody(builder, payload_json) ==
    with_body(SetContentLength(builder, payload_json), payload_json)

\* Client::build_request for a client with endpoint ep and signer sgn, at
\* time t after n signatures. panic names the unwrap() that failed, if any.
build_request(ep, sgn, payload, t, n, sign, serde) ==
    LET url == RequestUrl(ep, payload)
        b1 == header(post(url), "content-type", "application/json")
        b2 == SetOptions(b1, payload.options)
        sig == IF sgn.some THEN with_signature(sgn.v, t, n, sign)
               ELSE [result |-> Ok(""), signer |-> sgn, signatures |-> n]
        after == [signer |-> IF sgn.some THEN Some(sig.signer) ELSE sgn,
                  signatures |-> sig.signatures,
                  token |-> IF sgn.some /\ url # "" THEN Some(sig.result) ELSE None]
        b3 == IF sgn.some /\ sig.result.ok THEN SetAuthorization(b2, sig.result.v) ELSE b2
        json == to_json_string(payload, serde)
    IN  IF url = ""
        THEN [panic |-> "UrlParseError", request |-> None, signer |-> sgn,
              signatures |-> n, token |-> None]
        ELSE IF ~sig.result.ok
        THEN [panic |-> "SignerError", request |-> None] @@ after
        ELSE IF ~json.ok
        THEN [panic |-> "SerializeError", request |-> None] @@ after
        ELSE [panic |-> "none", request |-> Some(SetBody(b3, json.v))] @@ after

----------------------------------------------------------------------------
(* The wire reply and its mapping to a Response (Client::send) *)

\* HeaderValue::to_str().ok(): the text of a header value, when every byte
\* of it is visible ASCII
IsVisibleAscii(text) == \A i \in 1..Len(text) : CharAt(text, i) \in Chars(ByteOrder) \ {"ö"}
HeaderToStr(text) == IF IsVisibleAscii(text) THEN Some(text) ELSE None

\* lines 103-107 with the header read for a 200 reply only
ReplyApnsIdOfSuccess(rep) ==
    IF rep.status = 200 /\ rep.apns_id.some THEN HeaderToStr(rep.apns_id.v) ELSE None

\* lines 103-107
ReplyApnsId(rep) == IF rep.apns_id.some THEN HeaderToStr(rep.apns_id.v) ELSE None

\* serde_json::from_slice::<ErrorBody>(&body): the body must be a JSON
\* object with a reason string and, optionally, a numeric timestamp
ErrorBodyFromSlice(bytes) ==
    IF bytes.t # "obj" THEN Err("SerializeError")
    ELSE LET obj == bytes.m
             has(k) == k \in MapKeys(obj)
         IN  IF ~has("reason") THEN Err("SerializeError")
             ELSE IF MapGet(obj, "reason").t # "str" THEN Err("SerializeError")
             ELSE IF has("timestamp") /\ MapGet(obj, "timestamp").t \notin {"num", "null"}
             THEN Err("SerializeError")
             ELSE Ok([reason |-> MapGet(obj, "reason").s,
                      timestamp |-> IF has("timestamp")
                                       /\ MapGet(obj, "timestamp").t = "num"
                                    THEN Some(MapGet(obj, "timestamp").n) ELSE None])

\* Result::ok()
ResultOk(res) == IF res.ok THEN Some(res.v) ELSE None

NoResponse == [apns_id |-> None, error |-> None, code |-> 0]
NoOutcome == [tag |-> "none", response |-> NoResponse]

\* lines 110-114: the success outcome
OkResponse(rep) ==
    [tag |-> "Ok",
     response |-> [apns_id |-> ReplyApnsId(rep), error |-> None, code |-> rep.status]]

\* lines 118-122 with the body dropped instead of parsed
ResponseErrorWithoutBody(rep, bytes) ==
    [tag |-> "ResponseError",
     response |-> [apns_id |-> ReplyApnsId(rep), error |-> None, code |-> rep.status]]

\* lines 118-122 with a parse failure propagated (from_slice(&body)?)
\* instead of turned into an absent error
ResponseErrorPropagatingParse(rep, bytes) ==
    IF ErrorBodyFromSlice(bytes).ok
    THEN [tag |-> "ResponseError",
          response |-> [apns_id |-> ReplyApnsId(rep),
                        error |-> ResultOk(ErrorBodyFromSlice(bytes)),
                        code |-> rep.status]]
    ELSE [tag |-> "SerializeError", response |-> NoResponse]

\* lines 118-122: the remote rejection, from the body read
ResponseError(rep, bytes) ==
    [tag |-> "ResponseError",
     response |-> [apns_id |-> ReplyApnsId(rep),
                   error |-> ResultOk(ErrorBodyFromSlice(bytes)),
                   code |-> rep.status]]

\* Error::ConnectionError, from a reqwest::Error (the ? of lines 101, 116)
ConnectionError == [tag |-> "ConnectionError", response |-> NoResponse]

----------------------------------------------------------------------------
(* The inputs drawn *)

TokenAlphabet == {"a", ".", "/", " ", "ö"}

RECURSIVE TextsOfLen(_, _)
TextsOfLen(alphabet, n) ==
    IF n = 0 THEN {""}
    ELSE {c \o rest : c \in alphabet, rest \in TextsOfLen(alphabet, n - 1)}

\* the device tokens drawn: the one of the tests, and every text of 1 to
\* MaxTokenLen characters of the alphabet
DeviceTokens ==
    {"a_test_id"} \cup UNION {TextsOfLen(TokenAlphabet, n) : n \in 1..MaxTokenLen}

DefaultOptions ==
    [apns_priority |-> None, apns_id |-> None, apns_expiration |-> None,
     apns_collapse_id |-> None, apns_topic |-> None]

AllOptions ==
    [apns_priority : {None, Some("Normal"), Some("High")},
     apns_id : {None, Some("a-test-apns-id"), Some("an\nid")},
     apns_expiration : {None, Some(0), Some(420)},
     apns_collapse_id : {None, Some([value |-> "a_collapse_id"])},
     apns_topic : {None, Some("a_topic"), Some("prööt")}]

NoAps == [f \in ApsFields |-> None]

PlainAlert(text) == [title |-> None, subtitle |-> None, body |-> text]

\* PlainNotificationBuilder::build, with the values its setters stored
PlainAps(alert, badge, sound, category, interruption_level) ==
    [NoAps EXCEPT !.alert = Some(alert), !.badge = badge, !.sound = sound,
                  !.category = category, !.interruption_level = interruption_level]

ApsSamples ==
    {PlainAps(PlainAlert("test"), None, None, None, None),
     PlainAps(PlainAlert("Hi \"there\""), Some(420), Some("prööt"), Some("cat1"), None),
     PlainAps([title |-> Some("a title"), subtitle |-> Some("a subtitle"),
               body |-> "a\nbody"], Some(0), None, None, Some("TimeSensitive")),
     PlainAps(PlainAlert(""), None, Some("ö"), None, Some("Critical"))}

DataSamples ==
    {EmptyMap,
     MapInsert(EmptyMap, "custom", JObj(MapOf([key_str |-> JStr("foo"), key_num |-> JNum(42)]))),
     MapInsert(MapInsert(EmptyMap, "aps", JNum(1)), "acme", JStr("ö"))}

BasePayload ==
    [options |-> DefaultOptions, device_token |-> "a_test_id",
     aps |-> PlainAps(PlainAlert("test"), None, None, None, None), data |-> EmptyMap]

NoPayload ==
    [options |-> DefaultOptions, device_token |-> "", aps |-> NoAps, data |-> EmptyMap]

\* the payloads request building is checked on: every device token, every
\* combination of options, every sample of content
BuildPayloads ==
    {[BasePayload EXCEPT !.device_token = tok] : tok \in DeviceTokens}
    \cup {[BasePayload EXCEPT !.options = opt] : opt \in AllOptions}
    \cup {[BasePayload EXCEPT !.aps = aps, !.data = data] :
             aps \in ApsSamples, data \in DataSamples}

\* the payloads whole sends are checked on
SendPayloads ==
    {BasePayload,
     [BasePayload EXCEPT !.device_token = "a f"],
     [BasePayload EXCEPT !.options.apns_id = Some("an\nid")],
     [BasePayload EXCEPT !.options.apns_topic = Some("a_topic"),
                         !.options.apns_expiration = Some(0),
                         !.data = MapInsert(EmptyMap, "acme", JStr("ö"))]}

\* the payloads sent as time passes
ClockPayloads ==
    {BasePayload, [BasePayload EXCEPT !.options.apns_id = Some("an\nid")]}

\* what a fallible library call reports
Reports == {"ok", "error"}

Statuses == {200, 201, 403, 410, 500}

ReplyHeaders == {None, Some("abc"), Some("4B-ö")}

\* reply bodies: bytes that are no JSON document, and JSON documents
NotJson(text) == [t |-> "bytes", raw |-> text]

Bodies ==
    {NotJson(""), NotJson("<html>"), JNull, JStr("Unregistered"),
     JObj(EmptyMap),
     JObj(MapOf([reason |-> JStr("Unregistered")])),
     JObj(MapOf([reason |-> JStr("BadDeviceToken"), timestamp |-> JNum(12)])),
     JObj(MapOf([reason |-> JStr("ExpiredProviderToken"), timestamp |-> JNull])),
     JObj(MapOf([reason |-> JNum(5)])),
     JObj(MapOf([timestamp |-> JNum(12)])),
     JObj(MapOf([reason |-> JStr("TooManyRequests"), timestamp |-> JStr("soon")])),
     JObj(MapOf([reason |-> JStr("Made up by the gateway"), extra |-> JBool(TRUE)]))}

Unread == [t |-> "unread"]
ReadFailed == [t |-> "failed"]

NoReply == [status |-> 0, apns_id |-> None, body |-> Unread]

----------------------------------------------------------------------------
(* The state machine: one Client, its clock, and the send call in progress *)

KeyId == "89AFRD1X22"
TeamId == "ASDFQWERTY"

\* Client::token at time 0; signed says whether the Signer holds a token
\* from its construction on
TokenSigner(signed) ==
    LET sgn == new_signer(KeyId, TeamId, signature_ttl)
    IN  IF signed
        THEN [sgn EXCEPT !.cache = Some([token |-> SignToken(sgn, 0, 1), issued_at |-> 0])]
        ELSE sgn

\* the concurrent callers of Signer::with_signature
Requesters == 1..MaxRequesters

NoTokenRequest == [pc |-> "idle", token |-> "", issued_at |-> 0, found |-> 0,
                   wrote |-> 0]

\* the concurrent calls of Client::send
Calls == 1..MaxCalls

NoSend == [pc |-> "idle", request |-> None, reply |-> NoReply,
           outcome |-> NoOutcome, attempts |-> 0]

\* the caller has not begun a notification
NothingComposed ==
    [stage |-> "none",
     collapse_arg |-> "",        \* the text last given to CollapseId::new
     collapse_id |-> None,       \* what CollapseId::new returned
     builder |-> [alert |-> [title |-> None, subtitle |-> None, body |-> ""],
                  badge |-> None, sound |-> None, category |-> None,
                  interruption_level |-> None],
     setters |-> [badge |-> None, sound |-> None, category |-> None,
                  interruption_level |-> None],  \* the last argument of each setter
     args |-> [device_token |-> "", options |-> DefaultOptions],  \* those of build
     payload |-> NoPayload,
     added |-> [k \in {"aps", "acme"} |-> None],  \* the last value added under a key
     last_add |-> "none",        \* how the last add_custom_data ended
     json |-> None]              \* what to_json_string returned

NoCall == [panic |-> "none", sign |-> "none", serde |-> "none", attempts |-> 0,
           bodyRead |-> FALSE]

\* Client::certificate gives a client without signer, Client::token one with
Init ==
    /\ endpoint \in Endpoints
    /\ \E mode \in {"certificate", "token", "token-signed"} :
          /\ signer = IF mode = "certificate" THEN None
                      ELSE Some(TokenSigner(mode = "token-signed"))
          /\ signatures = IF mode = "token-signed" THEN 1 ELSE 0
    /\ now = 0
    /\ pc = "idle"
    /\ sending = NoPayload
    /\ request = None
    /\ reply = NoReply
    /\ outcome = NoOutcome
    /\ call = NoCall
    /\ prevTok = None
    /\ lastTok = None
    /\ tokenRequests = [r \in Requesters |-> NoTokenRequest]
    /\ inflight = [c \in Calls |-> NoSend]
    /\ composing = NothingComposed

\* the clock steps drawn: a second, or a whole validity window
TickCount(t) == (t \div signature_ttl) + (t % signature_ttl)

Tick ==
    /\ TickCount(now) < MaxTicks
    /\ \E d \in {1, signature_ttl} : now' = now + d
    /\ UNCHANGED <<tokenRequests, inflight, composing>>
    /\ UNCHANGED <<endpoint, signer, signatures, pc, sending, request, reply,
                   outcome, call, prevTok, lastTok>>

\* whether a token request at this moment has to sign
NeedsSignature == signer.some /\ ~IsFresh(signer.v, now)

\* Client::send(payload), up to the return of the future: build_request
\* runs to its end, or panics in one of its unwrap()s
Send(p, sign, serde) ==
    /\ pc \in {"idle", "done", "panicked", "dropped"}
    /\ \E built \in {build_request(endpoint, signer, p, now, signatures, sign, serde)} :
        \E answered \in {built.token.some /\ built.token.v.ok} :
           /\ signer' = built.signer
           /\ signatures' = built.signatures
           /\ request' = built.request
           /\ pc' = IF built.panic = "none" THEN "built" ELSE "panicked"
           /\ sending' = IF built.panic = "none" THEN p ELSE NoPayload
           /\ call' = [panic |-> built.panic,
                       sign |-> IF ~built.token.some THEN "none"
                                ELSE IF ~built.token.v.ok THEN "failed"
                                ELSE IF built.signatures = signatures THEN "cached"
                                ELSE "renewed",
                       serde |-> IF built.panic \in {"none", "SerializeError"}
                                 THEN serde ELSE "none",
                       attempts |-> 0,
                       bodyRead |-> FALSE]
           /\ lastTok' = IF answered
                         THEN Some([token |-> built.token.v.v, at |-> now,
                                    signatures |-> built.signatures])
                         ELSE lastTok
           /\ prevTok' = IF answered THEN lastTok ELSE prevTok
    /\ reply' = NoReply
    /\ outcome' = NoOutcome
    /\ UNCHANGED <<tokenRequests, inflight, composing>>
    /\ UNCHANGED <<endpoint, now>>

\* the calls of send drawn from a set of payloads: the signing operation
\* reports something only when the call has to sign
SendAny(payloads) ==
    \E p \in payloads, serde \in Reports :
        \E sign \in IF NeedsSignature THEN Reports ELSE {"ok"} : Send(p, sign, serde)

\* line 101, for a builder that holds an error: requesting.send() fails
\* before any connection is used
TransmitInvalid ==
    /\ pc = "built"
    /\ ~request.v.valid
    /\ pc' = "done"
    /\ outcome' = ConnectionError
    /\ request' = None
    /\ sending' = NoPayload
    /\ UNCHANGED <<tokenRequests, inflight, composing>>
    /\ UNCHANGED <<endpoint, signer, now, signatures, reply, call, prevTok, lastTok>>

\* line 101: the transport fails
TransmitFails ==
    /\ pc = "built"
    /\ request.v.valid
    /\ pc' = "done"
    /\ outcome' = ConnectionError
    /\ call' = [call EXCEPT !.attempts = @ + 1]
    /\ request' = None
    /\ sending' = NoPayload
    /\ UNCHANGED <<tokenRequests, inflight, composing>>
    /\ UNCHANGED <<endpoint, signer, now, signatures, reply, prevTok, lastTok>>

\* lines 101-115 with every 2xx status taken for success
TransmitAnySuccess(status, apns_id) ==
    /\ pc = "built"
    /\ request.v.valid
    /\ LET rep == [status |-> status, apns_id |-> apns_id, body |-> Unread]
       IN  /\ reply' = rep
           /\ IF status >= 200 /\ status < 300
              THEN pc' = "done" /\ outcome' = OkResponse(rep)
              ELSE pc' = "reading" /\ outcome' = NoOutcome
    /\ call' = [call EXCEPT !.attempts = @ + 1]
    /\ request' = None
    /\ sending' = NoPayload
    /\ UNCHANGED <<tokenRequests, inflight, composing>>
    /\ UNCHANGED <<endpoint, signer, now, signatures, prevTok, lastTok>>

\* lines 101-115 with the token requested when the future is polled
\* instead of when send is called
TransmitSigningLate(status, apns_id) ==
    /\ pc = "built"
    /\ request.v.valid
    /\ LET rep == [status |-> status, apns_id |-> apns_id, body |-> Unread]
           sig == IF signer.some THEN with_signature(signer.v, now, signatures, "ok")
                  ELSE [result |-> Ok(""), signer |-> signer, signatures |-> signatures]
       IN  /\ reply' = rep
           /\ IF status = 200
              THEN pc' = "done" /\ outcome' = OkResponse(rep)
              ELSE pc' = "reading" /\ outcome' = NoOutcome
           /\ signer' = IF signer.some THEN Some(sig.signer) ELSE signer
           /\ signatures' = sig.signatures
    /\ call' = [call EXCEPT !.attempts = @ + 1]
    /\ request' = None
    /\ sending' = NoPayload
    /\ UNCHANGED <<tokenRequests, inflight, composing>>
    /\ UNCHANGED <<endpoint, now, prevTok, lastTok>>

\* lines 101-115: the reply's status line and headers arrive; a 200 ends
\* the call, any other status goes on to read the body
Transmit(status, apns_id) ==
    /\ pc = "built"
    /\ request.v.valid
    /\ LET rep == [status |-> status, apns_id |-> apns_id, body |-> Unread]
       IN  /\ reply' = rep
           /\ IF status = 200
              THEN pc' = "done" /\ outcome' = OkResponse(rep)
              ELSE pc' = "reading" /\ outcome' = NoOutcome
    /\ call' = [call EXCEPT !.attempts = @ + 1]
    /\ request' = None
    /\ sending' = NoPayload
    /\ UNCHANGED <<tokenRequests, inflight, composing>>
    /\ UNCHANGED <<endpoint, signer, now, signatures, prevTok, lastTok>>

\* line 116: reading the body fails
ReadBodyFails ==
    /\ pc = "reading"
    /\ pc' = "done"
    /\ reply' = [reply EXCEPT !.body = ReadFailed]
    /\ outcome' = ConnectionError
    /\ UNCHANGED <<tokenRequests, inflight, composing>>
    /\ UNCHANGED <<endpoint, signer, now, signatures, sending, request, call,
                   prevTok, lastTok>>

\* lines 116-122: the body is read in full
ReadBody(bytes) ==
    /\ pc = "reading"
    /\ pc' = "done"
    /\ reply' = [reply EXCEPT !.body = bytes]
    /\ outcome' = ResponseError(reply, bytes)
    /\ call' = [call EXCEPT !.bodyRead = TRUE]
    /\ UNCHANGED <<tokenRequests, inflight, composing>>
    /\ UNCHANGED <<endpoint, signer, now, signatures, sending, request,
                   prevTok, lastTok>>

\* the caller drops the future without awaiting it to its end
Drop ==
    /\ pc \in {"built", "reading"}
    /\ pc' = "dropped"
    /\ request' = None
    /\ sending' = NoPayload
    /\ UNCHANGED <<tokenRequests, inflight, composing>>
    /\ UNCHANGED <<endpoint, signer, now, signatures, reply, outcome, call,
                   prevTok, lastTok>>

\* one client and its sends, from the call to the outcome
Next ==
    \/ SendAny(SendPayloads)
    \/ TransmitInvalid
    \/ TransmitFails
    \/ \E status \in Statuses, apns_id \in ReplyHeaders : Transmit(status, apns_id)
    \/ ReadBodyFails
    \/ \E bytes \in Bodies : ReadBody(bytes)
    \/ Drop

Spec == Init /\ [][Next]_vars

\* request building alone, over every payload drawn
NextBuild ==
    \/ SendAny(BuildPayloads)
    \/ Drop

SpecBuild == Init /\ [][NextBuild]_vars

\* the sends of one client as time passes
NextClock ==
    \/ Tick
    \/ SendAny(ClockPayloads)
    \/ Drop

SpecClock == Init /\ [][NextClock]_vars

----------------------------------------------------------------------------
(* The claims *)

\* a reply was received for the call (its status line and headers)
Replied == reply.status # 0

\* the body was read in full
BodyWasRead == reply.body.t \notin {"unread", "failed"}

\* the body is a structured error object {reason, optional timestamp}
IsErrorObject(bytes) ==
    /\ bytes.t = "obj"
    /\ "reason" \in MapKeys(bytes.m)
    /\ MapGet(bytes.m, "reason").t = "str"
    /\ "timestamp" \in MapKeys(bytes.m) => MapGet(bytes.m, "timestamp").t \in {"num", "null"}

\* the outcome is the remote rejection that preserves the reply's status
\* and, for a structured error object, its reason
IsRejectionOf(out, rep) ==
    /\ out.tag = "ResponseError"
    /\ out.response.code = rep.status
    /\ IsErrorObject(rep.body) =>
          /\ out.response.error.some
          /\ out.response.error.v.reason = MapGet(rep.body.m, "reason").s

\* C1, as stated: for every reply whose status is not 200, send ends in a
\* remote-rejection failure (never success) that carries the reply's status
\* as code and, for a structured error object, the body's reason.
C1_EveryNon200IsRejection ==
    (pc = "done" /\ Replied /\ reply.status # 200) => IsRejectionOf(outcome, reply)

\* C1, amended: for every reply whose status is not 200, send never ends in
\* success; when the body is read in full, it ends in the remote rejection
\* that carries the reply's status as code and, for a structured error
\* object, the body's reason; when reading the body fails, it ends in a
\* connection failure.
C1_Non200IsRejectionOnceBodyRead ==
    (Replied /\ reply.status # 200) =>
        /\ outcome.tag # "Ok"
        /\ (pc = "done" /\ BodyWasRead) => IsRejectionOf(outcome, reply)
        /\ (pc = "done" /\ ~BodyWasRead) => outcome = ConnectionError

C1_Witness ==
    /\ pc = "done"
    /\ reply.status = 410
    /\ reply.body = JObj(MapOf([reason |-> JStr("Unregistered")]))
    /\ outcome.tag = "ResponseError"
    /\ outcome.response.code = 410
    /\ outcome.response.error = Some([reason |-> "Unregistered", timestamp |-> None])

\* C2: a non-200 reply whose body is empty or cannot be parsed as a
\* structured error object yields a failure whose code is the reply's status
\* and whose error is absent; never a success.
C2_UnparseableBodyIsRejectionWithoutReason ==
    (pc = "done" /\ Replied /\ reply.status # 200 /\ BodyWasRead
        /\ ~IsErrorObject(reply.body)) =>
        /\ outcome.tag = "ResponseError"
        /\ outcome.response.code = reply.status
        /\ outcome.response.error = None

C2_Witness ==
    /\ pc = "done"
    /\ reply.status = 500
    /\ reply.body = NotJson("")
    /\ outcome.tag = "ResponseError"
    /\ outcome.response.code = 500
    /\ outcome.response.error = None

\* C3: send returns a success outcome if and only if the reply has status
\* 200; the outcome is a Response with code 200, no error and the message id
\* of the reply, and the body of the reply is not read.
C3_SuccessIffStatus200 ==
    /\ (pc = "done" /\ Replied) => (outcome.tag = "Ok" <=> reply.status = 200)
    /\ outcome.tag = "Ok" =>
          /\ pc = "done" /\ Replied /\ reply.status = 200
          /\ outcome.response.code = 200
          /\ outcome.response.error = None
          /\ outcome.response.apns_id \in {None, reply.apns_id}
          /\ (reply.apns_id.some /\ IsVisibleAscii(reply.apns_id.v))
                => outcome.response.apns_id = reply.apns_id
          /\ ~call.bodyRead /\ reply.body = Unread

C3_Witness ==
    /\ pc = "done"
    /\ reply.status = 200
    /\ reply.apns_id = Some("abc")
    /\ outcome = [tag |-> "Ok",
                  response |-> [apns_id |-> Some("abc"), error |-> None, code |-> 200]]

C5_SigningFailureIsReturned ==
    call.sign = "failed" =>
        /\ pc = "done"
        /\ outcome.tag = "SignerError"
        /\ call.attempts = 0

\* the request of the call, once built without a builder error
Built == pc = "built" /\ request.some /\ request.v.valid

\* C6: every built request carries "Bearer <token>" as Authorization header,
\* with the token the Signer answered the call with, if the client has a
\* Signer, and no Authorization header if it has none; a client without
\* Signer never signs.
C6_AuthorizationFollowsMode ==
    /\ Built =>
          IF signer.some
          THEN /\ lastTok.some
               /\ lastTok.v.token # ""
               /\ request.v.headers["authorization"] = Some("Bearer " \o lastTok.v.token)
          ELSE request.v.headers["authorization"] = None
    /\ ~signer.some => (signatures = 0 /\ lastTok = None)

C6_Witness ==
    /\ Built
    /\ signer.some
    /\ call.sign = "renewed"
    /\ now > signature_ttl
    /\ request.v.headers["authorization"]
         = Some("Bearer ES256-89AFRD1X22.ASDFQWERTY-3301.sig2")

\* a decimal text without sign and leading zeros
IsDecimalOf(text, n) ==
    /\ text # ""
    /\ \A i \in 1..Len(text) : CharAt(text, i) \in Chars(Digits)
    /\ (CharAt(text, 1) = "0" => text = "0")
    /\ FromDecimal(text) = n

\* C7: each of the five optional headers is in the built request if and only
\* if its option is set, with "5" for Normal and "10" for High priority, the
\* decimal text of the expiration ("0" for 0) and the literal id, collapse id
\* and topic.
C7_OptionalHeadersFollowOptions ==
    Built =>
        LET opt == sending.options
            hdr == request.v.headers
        IN  /\ hdr["apns-priority"].some <=> opt.apns_priority.some
            /\ opt.apns_priority = Some("Normal") => hdr["apns-priority"] = Some("5")
            /\ opt.apns_priority = Some("High") => hdr["apns-priority"] = Some("10")
            /\ hdr["apns-id"] = opt.apns_id
            /\ hdr["apns-expiration"].some <=> opt.apns_expiration.some
            /\ opt.apns_expiration.some =>
                  IsDecimalOf(hdr["apns-expiration"].v, opt.apns_expiration.v)
            /\ hdr["apns-collapse-id"].some <=> opt.apns_collapse_id.some
            /\ opt.apns_collapse_id.some =>
                  hdr["apns-collapse-id"].v = opt.apns_collapse_id.v.value
            /\ hdr["apns-topic"] = opt.apns_topic

C7_Witness ==
    /\ Built
    /\ sending.options.apns_expiration = Some(0)
    /\ sending.options.apns_priority = Some("High")
    /\ sending.options.apns_topic = None
    /\ request.v.headers["apns-expiration"] = Some("0")
    /\ request.v.headers["apns-priority"] = Some("10")
    /\ request.v.headers["apns-topic"] = None

\* C8: the Content-Length header of the built request is the length in
\* bytes of the request's body, and the body is the payload's serialized
\* JSON.
C8_ContentLengthIsBodyLength ==
    Built =>
        /\ request.v.body.some
        /\ request.v.headers["content-length"].some
        /\ IsDecimalOf(request.v.headers["content-length"].v, StrLen(request.v.body.v))
        /\ Ok(request.v.body.v) = to_json_string(sending, "ok")

C8_Witness ==
    /\ Built
    /\ request.v.body = Some("{\"aps\":{\"alert\":{\"body\":\"\"},\"interruption-level\":\"critical\",\"sound\":\"ö\"}}")
    /\ request.v.headers["content-length"] = Some("74")
    /\ Len(request.v.body.v) = 73

\* the URL the claim names
DeviceUrl(e, device_token) ==
    "https://"
    \o (IF e = "Production" THEN "api.push.apple.com" ELSE "api.development.push.apple.com")
    \o "/3/device/" \o device_token

\* C9, as stated: for every endpoint and every non-empty device token the
\* request is a POST to https://<host>/3/device/<token>, the token unchanged,
\* and building does not fail.
C9_UrlForEveryToken ==
    (pc = "built" /\ sending.device_token # "" /\ sending.options = DefaultOptions) =>
        /\ request.v.valid
        /\ request.v.method = "POST"
        /\ request.v.url = DeviceUrl(endpoint, sending.device_token)

\* the characters the URL parser leaves as they are in a path
PlainChars ==
    Chars("ABCDEFGHIJKLMNOPQRSTUVWXYZabcdefghijklmnopqrstuvwxyz0123456789-_./")

\* the segments of a path, split at "/"
RECURSIVE Segments(_)
Segments(text) ==
    LET cut == FindFirst(text, {"/"}, 1)
    IN  IF cut > Len(text) THEN {text}
        ELSE {SubSeq(text, 1, cut - 1)} \cup Segments(SubSeq(text, cut + 1, Len(text)))

\* a device token the URL parser does not rewrite
IsPlainToken(device_token) ==
    /\ device_token # ""
    /\ Chars(device_token) \subseteq PlainChars
    /\ Segments(device_token) \cap {".", ".."} = {}

\* C9, amended: for every endpoint and every non-empty device token made of
\* ASCII letters, digits, "-", "_", "." and "/" none of whose segments is
\* "." or "..", the request is a POST to https://<host>/3/device/<token>,
\* the token unchanged; and building fails for no device token.
C9_UrlForPlainTokens ==
    /\ call.panic # "UrlParseError"
    /\ (pc = "built" /\ sending.options = DefaultOptions) =>
          /\ request.v.valid
          /\ request.v.method = "POST"
          /\ request.v.url # ""
          /\ IsPlainToken(sending.device_token) =>
                request.v.url = DeviceUrl(endpoint, sending.device_token)

C9_Witness ==
    /\ Built
    /\ endpoint = "Sandbox"
    /\ sending.device_token = "a/a"
    /\ request.v.method = "POST"
    /\ request.v.url = "https://api.development.push.apple.com/3/device/a/a"

\* C10: of two successive token requests the Signer answered, the second,
\* made while the age of the token the first returned is within the TTL,
\* returns the same token and computes no signature; made after the TTL has
\* elapsed, it returns a token with a newer issued-at claim.
C10_TokenCachedWithinTtl ==
    (prevTok.some /\ lastTok.some) =>
        LET age == lastTok.v.at - IssuedAtClaim(prevTok.v.token)
        IN  /\ age <= signature_ttl =>
                  /\ lastTok.v.token = prevTok.v.token
                  /\ lastTok.v.signatures = prevTok.v.signatures
            /\ age > signature_ttl =>
                  /\ IssuedAtClaim(lastTok.v.token) > IssuedAtClaim(prevTok.v.token)
                  /\ IssuedAtClaim(lastTok.v.token) = lastTok.v.at

C10_Witness ==
    /\ prevTok.some /\ lastTok.some
    /\ prevTok.v.at > signature_ttl
    /\ prevTok.v.signatures = 2
    /\ IssuedAtClaim(prevTok.v.token) = prevTok.v.at
    /\ lastTok.v.at > prevTok.v.at
    /\ lastTok.v.token = prevTok.v.token
    /\ lastTok.v.signatures = 2

----------------------------------------------------------------------------
(* Concurrent token requests on the Signer of one Client.  Client::send    *)
(* takes &self, so several threads can be inside build_request, and with   *)
(* it inside Signer::with_signature, at once.  A request reads the cache   *)
(* in one piece; if the token is expired it signs a new one and replaces   *)
(* the cached pair in one piece.                                           *)

\* the variables of the single send call of Next
callVars == <<pc, sending, request, reply, outcome, call, prevTok, lastTok>>

\* the number of cache replacements completed so far
Installs ==
    LET wrote == {tokenRequests[r].wrote : r \in Requesters}
    IN  CHOOSE n \in wrote : \A m \in wrote : m <= n

\* with_signature begins: the cached pair is read; a fresh token is handed
\* out as it is, an expired or missing one has to be regenerated
RequestToken(r) ==
    /\ signer.some
    /\ tokenRequests[r].pc = "idle"
    /\ tokenRequests' = [tokenRequests EXCEPT ![r] =
          IF IsFresh(signer.v, now)
          THEN [pc |-> "done", token |-> signer.v.cache.v.token,
                issued_at |-> signer.v.cache.v.issued_at, found |-> Installs,
                wrote |-> 0]
          ELSE [pc |-> "expired", token |-> "", issued_at |-> 0,
                found |-> Installs, wrote |-> 0]]
    /\ UNCHANGED <<endpoint, signer, now, signatures, callVars, inflight, composing>>

\* the token is signed with the current time as its issued-at claim
Regenerate(r) ==
    /\ signer.some
    /\ tokenRequests[r].pc = "expired"
    /\ tokenRequests' = [tokenRequests EXCEPT ![r] =
          [@ EXCEPT !.pc = "signed",
                    !.token = SignToken(signer.v, now, signatures + 1),
                    !.issued_at = now]]
    /\ signatures' = signatures + 1
    /\ UNCHANGED <<endpoint, signer, now, callVars, inflight, composing>>

\* the signing operation fails: with_signature returns the error
RegenerateFails(r) ==
    /\ signer.some
    /\ tokenRequests[r].pc = "expired"
    /\ tokenRequests' = [tokenRequests EXCEPT ![r] = [@ EXCEPT !.pc = "failed"]]
    /\ UNCHANGED <<endpoint, signer, now, signatures, callVars, inflight, composing>>

\* a replacement of the cache that writes the token and leaves the
\* issued-at timestamp of the pair it finds
InstallTokenOnly(r) ==
    /\ signer.some
    /\ tokenRequests[r].pc = "signed"
    /\ signer' = Some([signer.v EXCEPT !.cache =
          Some([token |-> tokenRequests[r].token,
                issued_at |-> IF signer.v.cache.some
                              THEN signer.v.cache.v.issued_at
                              ELSE tokenRequests[r].issued_at])])
    /\ tokenRequests' = [tokenRequests EXCEPT ![r] =
          [@ EXCEPT !.pc = "done", !.wrote = Installs + 1]]
    /\ UNCHANGED <<endpoint, now, signatures, callVars, inflight, composing>>

\* a replacement of the cache that gives way to a fresh pair another
\* request has installed meanwhile
InstallTokenIfExpired(r) ==
    /\ signer.some
    /\ tokenRequests[r].pc = "signed"
    /\ signer' = IF IsFresh(signer.v, now) THEN signer
                 ELSE Some([signer.v EXCEPT !.cache =
                         Some([token |-> tokenRequests[r].token,
                               issued_at |-> tokenRequests[r].issued_at])])
    /\ tokenRequests' = [tokenRequests EXCEPT ![r] =
          [@ EXCEPT !.pc = "done", !.wrote = Installs + 1]]
    /\ UNCHANGED <<endpoint, now, signatures, callVars, inflight, composing>>

\* the cached {token, issued-at} pair is replaced in one piece, and the new
\* token is handed to the request
InstallToken(r) ==
    /\ signer.some
    /\ tokenRequests[r].pc = "signed"
    /\ signer' = Some([signer.v EXCEPT !.cache =
          Some([token |-> tokenRequests[r].token,
                issued_at |-> tokenRequests[r].issued_at])])
    /\ tokenRequests' = [tokenRequests EXCEPT ![r] =
          [@ EXCEPT !.pc = "done", !.wrote = Installs + 1]]
    /\ UNCHANGED <<endpoint, now, signatures, callVars, inflight, composing>>

\* the token requests of concurrent sends as time passes
NextSigner ==
    \/ Tick
    \/ \E r \in Requesters : RequestToken(r)
    \/ \E r \in Requesters : Regenerate(r)
    \/ \E r \in Requesters : RegenerateFails(r)
    \/ \E r \in Requesters : InstallToken(r)

SpecSigner == Init /\ [][NextSigner]_vars

\* the token is one whole signed token of this Signer
IsCompleteToken(token) ==
    \E serial \in 1..signatures :
        token = SignToken(signer.v, IssuedAtClaim(token), serial)

\* C11: under every interleaving of token requests and regenerations the
\* cached pair is one that a single regeneration wrote (the token carries
\* the issued-at timestamp it is cached with), every pair a reader observed
\* is such a pair, and every token handed to a request is a complete token.
C11_NoTornPair ==
    signer.some =>
        /\ signer.v.cache.some =>
              /\ IsCompleteToken(signer.v.cache.v.token)
              /\ IssuedAtClaim(signer.v.cache.v.token) = signer.v.cache.v.issued_at
        /\ \A r \in Requesters :
              tokenRequests[r].pc = "done" =>
                  /\ IsCompleteToken(tokenRequests[r].token)
                  /\ IssuedAtClaim(tokenRequests[r].token) = tokenRequests[r].issued_at

\* two regenerations at different times have replaced the cache, and a
\* token was handed out by each
C11_Witness ==
    /\ signer.some /\ signer.v.cache.some
    /\ \E r, q \in Requesters :
          /\ tokenRequests[r].pc = "done" /\ tokenRequests[q].pc = "done"
          /\ tokenRequests[r].wrote = 1 /\ tokenRequests[q].wrote = 2
          /\ tokenRequests[r].found = 0 /\ tokenRequests[q].found = 0
          /\ tokenRequests[r].issued_at # tokenRequests[q].issued_at

----------------------------------------------------------------------------
(* Concurrent send calls on one Client.  Each call owns the future that    *)
(* send returned, and with it its RequestBuilder and its reply; the calls  *)
(* share the Signer and the transport of the Client.                       *)

\* the replies drawn for concurrent calls
CallStatuses == {200, 403}
CallReplyHeaders == {None, Some("abc")}
CallBodies == {NotJson(""), JObj(MapOf([reason |-> JStr("Unregistered")]))}

\* Client::send(payload) of call c, up to the return of the future
SendCall(c, p, sign, serde) ==
    /\ inflight[c].pc = "idle"
    /\ \E built \in {build_request(endpoint, signer, p, now, signatures, sign, serde)} :
          /\ signer' = built.signer
          /\ signatures' = built.signatures
          /\ inflight' = [inflight EXCEPT ![c] =
                [@ EXCEPT !.pc = IF built.panic = "none" THEN "built" ELSE "panicked",
                          !.request = built.request]]
    /\ UNCHANGED <<endpoint, now, callVars, tokenRequests, composing>>

SendAnyCall(c) ==
    \E p \in ClockPayloads, serde \in Reports :
        \E sign \in IF NeedsSignature THEN Reports ELSE {"ok"} : SendCall(c, p, sign, serde)

\* line 101 of call c, for a builder that holds an error
TransmitCallInvalid(c) ==
    /\ inflight[c].pc = "built"
    /\ ~inflight[c].request.v.valid
    /\ inflight' = [inflight EXCEPT ![c] =
          [@ EXCEPT !.pc = "done", !.outcome = ConnectionError, !.request = None]]
    /\ UNCHANGED <<endpoint, signer, now, signatures, callVars, tokenRequests, composing>>

\* line 101 with the request sent again after a transport failure
TransmitCallFailsRetrying(c) ==
    /\ inflight[c].pc = "built"
    /\ inflight[c].request.v.valid
    /\ inflight[c].attempts < 2
    /\ inflight' = [inflight EXCEPT ![c] = [@ EXCEPT !.attempts = @ + 1]]
    /\ UNCHANGED <<endpoint, signer, now, signatures, callVars, tokenRequests, composing>>

\* line 101 of call c: the transport fails, and the ? returns the error
TransmitCallFails(c) ==
    /\ inflight[c].pc = "built"
    /\ inflight[c].request.v.valid
    /\ inflight' = [inflight EXCEPT ![c] =
          [@ EXCEPT !.pc = "done", !.outcome = ConnectionError,
                    !.attempts = @ + 1, !.request = None]]
    /\ UNCHANGED <<endpoint, signer, now, signatures, callVars, tokenRequests, composing>>

\* lines 101-115 of call c: the reply's status line and headers arrive
TransmitCall(c, status, apns_id) ==
    /\ inflight[c].pc = "built"
    /\ inflight[c].request.v.valid
    /\ LET rep == [status |-> status, apns_id |-> apns_id, body |-> Unread]
       IN  inflight' = [inflight EXCEPT ![c] =
              [@ EXCEPT !.pc = IF status = 200 THEN "done" ELSE "reading",
                        !.outcome = IF status = 200 THEN OkResponse(rep) ELSE NoOutcome,
                        !.reply = rep,
                        !.attempts = @ + 1,
                        !.request = None]]
    /\ UNCHANGED <<endpoint, signer, now, signatures, callVars, tokenRequests, composing>>

\* line 116 of call c: reading the body fails
ReadCallBodyFails(c) ==
    /\ inflight[c].pc = "reading"
    /\ inflight' = [inflight EXCEPT ![c] =
          [@ EXCEPT !.pc = "done", !.outcome = ConnectionError,
                    !.reply = [@ EXCEPT !.body = ReadFailed]]]
    /\ UNCHANGED <<endpoint, signer, now, signatures, callVars, tokenRequests, composing>>

\* lines 116-122 of call c: the body is read in full
ReadCallBody(c, bytes) ==
    /\ inflight[c].pc = "reading"
    /\ inflight' = [inflight EXCEPT ![c] =
          [@ EXCEPT !.pc = "done", !.outcome = ResponseError(inflight[c].reply, bytes),
                    !.reply = [@ EXCEPT !.body = bytes]]]
    /\ UNCHANGED <<endpoint, signer, now, signatures, callVars, tokenRequests, composing>>

\* the caller of call c drops the future
DropCall(c) ==
    /\ inflight[c].pc \in {"built", "reading"}
    /\ inflight' = [inflight EXCEPT ![c] = [@ EXCEPT !.pc = "dropped", !.request = None]]
    /\ UNCHANGED <<endpoint, signer, now, signatures, callVars, tokenRequests, composing>>

\* the sends in flight on one client
NextCalls ==
    \/ \E c \in Calls : SendAnyCall(c)
    \/ \E c \in Calls : TransmitCallInvalid(c)
    \/ \E c \in Calls : TransmitCallFails(c)
    \/ \E c \in Calls, status \in CallStatuses, apns_id \in CallReplyHeaders :
          TransmitCall(c, status, apns_id)
    \/ \E c \in Calls : ReadCallBodyFails(c)
    \/ \E c \in Calls, bytes \in CallBodies : ReadCallBody(c, bytes)
    \/ \E c \in Calls : DropCall(c)

SpecCalls == Init /\ [][NextCalls]_vars

\* the call has ended: its future resolved, was dropped, or send panicked
CallEnded(c) == inflight[c].pc \in {"done", "dropped", "panicked"}

\* C12: every send makes at most one transport attempt; a transport error
\* ends that send with a connection failure, which is the outcome its caller
\* gets; a call that has ended stays as it ended, and a step of one send
\* (its transport error included) changes the state of no other send.
C12_ErrorsSurfaceWithoutRetry ==
    /\ [](\A c \in Calls :
            /\ inflight[c].attempts <= 1
            /\ inflight[c].pc = "done" <=> inflight[c].outcome # NoOutcome
            /\ (inflight[c].attempts = 1 /\ inflight[c].reply = NoReply)
                  => (inflight[c].pc = "done" /\ inflight[c].outcome = ConnectionError))
    /\ [][\A c \in Calls :
            /\ CallEnded(c) => inflight'[c] = inflight[c]
            /\ inflight'[c] # inflight[c] =>
                  \A d \in Calls \ {c} : inflight'[d] = inflight[d]]_vars

\* one send ended with a connection failure after its only transport
\* attempt while another send of the same client, still in flight, goes on
\* reading its reply
C12_Witness ==
    \E c, d \in Calls :
        /\ c # d
        /\ inflight[c].pc = "done" /\ inflight[c].outcome = ConnectionError
        /\ inflight[c].attempts = 1 /\ inflight[c].reply = NoReply
        /\ inflight[d].pc = "reading" /\ inflight[d].attempts = 1

----------------------------------------------------------------------------
(* The caller puts a notification together: CollapseId::new for the        *)
(* options, PlainNotificationBuilder::new, its setters and build, then     *)
(* Payload::add_custom_data, and hands the payload to Client::send.        *)

\* the longest collapse identifier, in bytes
MaxCollapseIdLen == 64

\* CollapseId::new without the check of the length
CollapseIdNewUnchecked(value) == Ok([value |-> value])

\* CollapseId::new
CollapseIdNew(value) ==
    IF StrLen(value) > MaxCollapseIdLen
    THEN Err("InvalidOptions")
    ELSE Ok([value |-> value])

\* PlainNotificationBuilder::new
new_builder(alert) ==
    [alert |-> alert, badge |-> None, sound |-> None, category |-> None,
     interruption_level |-> None]

set_badge(builder, badge) == [builder EXCEPT !.badge = Some(badge)]

set_sound(builder, sound) == [builder EXCEPT !.sound = Some(sound)]

set_category(builder, category) == [builder EXCEPT !.category = Some(category)]

set_interruption_level(builder, interruption_level) ==
    [builder EXCEPT !.interruption_level = Some(interruption_level)]

\* NotificationBuilder::build with the interruption level left out
build_without_interruption_level(builder, device_token, options) ==
    [aps |-> PlainAps(builder.alert, builder.badge, builder.sound,
                      builder.category, None),
     device_token |-> device_token,
     options |-> options,
     data |-> EmptyMap]

\* NotificationBuilder::build for PlainNotificationBuilder
build(builder, device_token, options) ==
    [aps |-> PlainAps(builder.alert, builder.badge, builder.sound,
                      builder.category, builder.interruption_level),
     device_token |-> device_token,
     options |-> options,
     data |-> EmptyMap]

\* a value serde_json::to_value has no JSON for (a map with keys that are
\* no strings, or a Serialize implementation that reports an error)
Unserializable == [t |-> "unserializable"]

\* Payload::add_custom_data
add_custom_data(payload, root_key, data) ==
    IF data = Unserializable
    THEN Err("SerializeError")
    ELSE Ok([payload EXCEPT !.data = MapInsert(@, root_key, data)])

\* the root keys and values of custom data drawn
RootKeys == {"aps", "acme"}
CustomValues == {JNum(1), JObj(MapOf([key_str |-> JStr("foo")])), Unserializable}

\* a text of n times the character c
RECURSIVE Repeat(_, _)
Repeat(c, n) ==
    IF n = 0 THEN ""
    ELSE LET half == Repeat(c, n \div 2)
         IN  half \o half \o (IF n % 2 = 1 THEN c ELSE "")

\* the collapse identifiers drawn: short ones, and ones about the longest
CollapseIdTexts ==
    {"", "a_collapse_id"}
    \cup {Repeat("a", n) : n \in (MaxCollapseIdLen - 1)..(MaxCollapseIdLen + 2)}
    \cup {Repeat("ö", n) : n \in {MaxCollapseIdLen \div 2, MaxCollapseIdLen \div 2 + 1}}

\* the variables that the caller's steps before send leave alone
clientVars == <<endpoint, signer, now, signatures, callVars, tokenRequests, inflight>>

\* CollapseId::new(value), called once before the payload is built
NewCollapseId(value) ==
    /\ composing.stage \in {"none", "builder"}
    /\ ~composing.collapse_id.some
    /\ composing' = [composing EXCEPT !.collapse_arg = value,
                                      !.collapse_id = Some(CollapseIdNew(value))]
    /\ UNCHANGED clientVars

\* PlainNotificationBuilder::new(alert)
NewBuilder(alert) ==
    /\ composing.stage = "none"
    /\ composing' = [composing EXCEPT !.stage = "builder", !.builder = new_builder(alert)]
    /\ UNCHANGED clientVars

\* the options the caller can pass to build: a collapse identifier needs a
\* CollapseId, which only a successful CollapseId::new gives
OptionsAtHand ==
    {[opt EXCEPT !.apns_collapse_id = id] :
        opt \in {DefaultOptions, [DefaultOptions EXCEPT !.apns_topic = Some("a_topic")]},
        id \in {None} \cup (IF composing.collapse_id.some /\ composing.collapse_id.v.ok
                            THEN {Some(composing.collapse_id.v.v)} ELSE {})}

\* builder.build(device_token, options)
Build(device_token, options) ==
    /\ composing.stage = "builder"
    /\ composing' = [composing EXCEPT
          !.stage = "payload",
          !.args = [device_token |-> device_token, options |-> options],
          !.payload = build(composing.builder, device_token, options)]
    /\ UNCHANGED clientVars

\* client.send(payload) with the payload put together
SendComposed ==
    /\ composing.stage = "payload"
    /\ \E serde \in Reports :
        \E sign \in IF NeedsSignature THEN Reports ELSE {"ok"} :
            Send(composing.payload, sign, serde)

\* options with a collapse identifier, from their construction to the send
NextOptions ==
    \/ \E value \in CollapseIdTexts : NewCollapseId(value)
    \/ NewBuilder(PlainAlert("test"))
    \/ \E options \in OptionsAtHand : Build("a_test_id", options)
    \/ SendComposed
    \/ TransmitFails
    \/ \E apns_id \in CallReplyHeaders : Transmit(200, apns_id)

SpecOptions == Init /\ [][NextOptions]_vars

\* CollapseId::new returned the invalid-option failure
CollapseIdRejected == composing.collapse_id.some /\ ~composing.collapse_id.v.ok

\* C13: CollapseId::new returns the invalid-option failure exactly for the
\* values longer than the maximum length, and a CollapseId of the value
\* otherwise; this happens before the payload exists, so when a value has
\* been rejected and the payload is not yet built, no request has been built
\* and no transport attempt made, and the rejected value gets into no
\* payload and no request; no request carries an apns-collapse-id header
\* longer than the maximum length.
C13_OverlongCollapseIdIsRejected ==
    /\ composing.collapse_id.some =>
          /\ composing.collapse_id.v.ok
                <=> StrLen(composing.collapse_arg) <= MaxCollapseIdLen
          /\ composing.collapse_id.v.ok
                => composing.collapse_id.v.v.value = composing.collapse_arg
          /\ ~composing.collapse_id.v.ok
                => composing.collapse_id.v.e = "InvalidOptions"
    /\ CollapseIdRejected =>
          /\ composing.payload.options.apns_collapse_id = None
          /\ request.some => request.v.headers["apns-collapse-id"] = None
          /\ composing.stage \in {"none", "builder"} =>
                (pc = "idle" /\ request = None /\ call.attempts = 0)
    /\ (request.some /\ request.v.headers["apns-collapse-id"].some) =>
          StrLen(request.v.headers["apns-collapse-id"].v) <= MaxCollapseIdLen

\* a collapse identifier of one byte more than the maximum was rejected,
\* and the caller has sent the notification without one
C13_Witness ==
    /\ CollapseIdRejected
    /\ StrLen(composing.collapse_arg) = MaxCollapseIdLen + 1
    /\ Built
    /\ request.v.headers["apns-collapse-id"] = None

----------------------------------------------------------------------------
(* The payload of a plain notification, from the builder to its JSON *)

\* builder.set_badge(badge)
SetBadge(badge) ==
    /\ composing.stage = "builder"
    /\ composing' = [composing EXCEPT !.builder = set_badge(@, badge),
                                      !.setters.badge = Some(badge)]
    /\ UNCHANGED <<clientVars>>

\* builder.set_sound(sound)
SetSound(sound) ==
    /\ composing.stage = "builder"
    /\ composing' = [composing EXCEPT !.builder = set_sound(@, sound),
                                      !.setters.sound = Some(sound)]
    /\ UNCHANGED <<clientVars>>

\* builder.set_category(category)
SetCategory(category) ==
    /\ composing.stage = "builder"
    /\ composing' = [composing EXCEPT !.builder = set_category(@, category),
                                      !.setters.category = Some(category)]
    /\ UNCHANGED <<clientVars>>

\* builder.set_interruption_level(interruption_level)
SetInterruptionLevel(interruption_level) ==
    /\ composing.stage = "builder"
    /\ composing' = [composing EXCEPT
          !.builder = set_interruption_level(@, interruption_level),
          !.setters.interruption_level = Some(interruption_level)]
    /\ UNCHANGED <<clientVars>>

\* payload.add_custom_data(root_key, data): the payload changes only when
\* the call returns Ok
AddCustomData(root_key, data) ==
    /\ composing.stage = "payload"
    /\ \E added \in {add_custom_data(composing.payload, root_key, data)} :
          composing' = IF added.ok
                       THEN [composing EXCEPT !.payload = added.v,
                                              !.added[root_key] = Some(data),
                                              !.last_add = "ok"]
                       ELSE [composing EXCEPT !.last_add = "error"]
    /\ UNCHANGED <<clientVars>>

\* payload.to_json_string()
ToJsonString(serde) ==
    /\ composing.stage = "payload"
    /\ composing' = [composing EXCEPT
          !.stage = "json",
          !.json = Some(to_json_string(composing.payload, serde))]
    /\ UNCHANGED <<clientVars>>

\* a plain notification, from PlainNotificationBuilder::new to the JSON
NextPayload ==
    \/ NewBuilder(PlainAlert("a body"))
    \/ \E badge \in {0, 420} : SetBadge(badge)
    \/ \E sound \in {"meow", "prööt"} : SetSound(sound)
    \/ SetCategory("cat1")
    \/ \E level \in {"TimeSensitive", "Critical"} : SetInterruptionLevel(level)
    \/ \E options \in OptionsAtHand : Build("device_id", options)
    \/ \E root_key \in RootKeys, data \in CustomValues : AddCustomData(root_key, data)
    \/ \E serde \in Reports : ToJsonString(serde)

SpecPayload == Init /\ [][NextPayload]_vars

\* the JSON text of the aps object of a plain notification with the given
\* body and optional fields, written out member by member
PlainApsText(text, badge, sound, category, interruption_level) ==
    "{\"alert\":{\"body\":" \o JsonQuote(text) \o "}"
    \o (IF badge.some THEN ",\"badge\":" \o ToDecimal(badge.v) ELSE "")
    \o (IF category.some THEN ",\"category\":" \o JsonQuote(category.v) ELSE "")
    \o (IF interruption_level.some
        THEN ",\"interruption-level\":"
             \o (IF interruption_level.v = "Critical" THEN "\"critical\""
                 ELSE "\"time-sensitive\"")
        ELSE "")
    \o (IF sound.some THEN ",\"sound\":" \o JsonQuote(sound.v) ELSE "")
    \o "}"

\* C14: after any sequence of add_custom_data calls, to_json_string gives
\* one JSON object with the key aps holding the structured fields of the
\* payload and, under every other root key, the value of the last
\* add_custom_data that returned Ok; a value added under "aps" is not in it.
C14_JsonHasApsAndLastCustomData ==
    (composing.stage = "json" /\ composing.json.v.ok) =>
        composing.json.v.v =
            "{"
            \o (IF composing.added["acme"].some
                THEN "\"acme\":" \o JsonToString(composing.added["acme"].v) \o ","
                ELSE "")
            \o "\"aps\":" \o JsonToString(ApsToValue(composing.payload.aps))
            \o "}"

\* custom data was added twice under "acme" and once under "aps", a later
\* add_custom_data failed, and the JSON has the last value of "acme" and the
\* structured aps
C14_Witness ==
    /\ composing.stage = "json"
    /\ composing.added["acme"] = Some(JObj(MapOf([key_str |-> JStr("foo")])))
    /\ composing.added["aps"] = Some(JNum(1))
    /\ composing.last_add = "error"
    /\ composing.setters.badge = Some(420)
    /\ composing.json = Some(Ok(
          "{\"acme\":{\"key_str\":\"foo\"},\"aps\":{\"alert\":{\"body\":\"a body\"},\"badge\":420}}"))

----------------------------------------------------------------------------
(* The message id of the outcome *)

\* the call ended with an outcome that holds a Response
HasResponse == pc = "done" /\ outcome.tag \in {"Ok", "ResponseError"}

\* C15, as stated: whatever the status of the reply, the message id of the
\* success outcome and of the remote rejection is the value of the reply's
\* apns-id header when the header is present, and absent when it is absent.
C15_MessageIdIsReplyHeader ==
    HasResponse => outcome.response.apns_id = reply.apns_id

\* C15, amended: whatever the status of the reply, the message id of the
\* success outcome and of the remote rejection is the value of the reply's
\* apns-id header when the header is present and its value is visible ASCII
\* text, and absent when the header is absent or its value holds other bytes.
C15_MessageIdIsVisibleReplyHeader ==
    HasResponse =>
        outcome.response.apns_id =
            IF reply.apns_id.some /\ IsVisibleAscii(reply.apns_id.v)
            THEN reply.apns_id ELSE None

\* a rejected notification whose reply had the header
C15_Witness ==
    /\ pc = "done"
    /\ reply.status = 410
    /\ reply.apns_id = Some("abc")
    /\ outcome.tag = "ResponseError"
    /\ outcome.response.apns_id = Some("abc")

----------------------------------------------------------------------------
(* The payload a PlainNotificationBuilder builds *)

\* build has run
PayloadBuilt == composing.stage \in {"payload", "json"}

\* no add_custom_data has been called on the payload
NoCustomDataYet ==
    composing.last_add = "none" /\ \A k \in RootKeys : ~composing.added[k].some

\* C16: after any sequence of calls of the four setters and build, the
\* serialized aps object has the alert with its body, has badge, sound,
\* category and interruption-level exactly when the setter was called, with
\* the argument of its last call, and has no other member (so none of
\* content-available, mutable-content and url-args); the payload has the
\* device token and the options given to build, and no custom data until
\* some is added.
C16_PlainPayloadFollowsSetters ==
    PayloadBuilt =>
        /\ JsonToString(ApsToValue(composing.payload.aps))
              = PlainApsText(composing.builder.alert.body, composing.setters.badge,
                             composing.setters.sound, composing.setters.category,
                             composing.setters.interruption_level)
        /\ \A f \in {"content_available", "mutable_content", "url_args"} :
              composing.payload.aps[f] = None
        /\ composing.payload.device_token = composing.args.device_token
        /\ composing.payload.options = composing.args.options
        /\ NoCustomDataYet => composing.payload.data = EmptyMap
        /\ (NoCustomDataYet /\ composing.stage = "json" /\ composing.json.v.ok) =>
              composing.json.v.v
                 = "{\"aps\":" \o JsonToString(ApsToValue(composing.payload.aps)) \o "}"

\* a payload built after set_badge, set_sound and set_interruption_level,
\* without set_category
C16_Witness ==
    /\ composing.stage = "payload"
    /\ NoCustomDataYet
    /\ composing.setters = [badge |-> Some(420), sound |-> Some("prööt"),
                            category |-> None,
                            interruption_level |-> Some("TimeSensitive")]
    /\ composing.args.device_token = "device_id"
    /\ composing.payload.device_token = "device_id"
    /\ composing.payload.data = EmptyMap
    /\ JsonToString(ApsToValue(composing.payload.aps))
          = "{\"alert\":{\"body\":\"a body\"},\"badge\":420,\"interruption-level\":\"time-sensitive\",\"sound\":\"prööt\"}"

----------------------------------------------------------------------------
(* Regenerations that race to replace the cache *)

\* the requests that have replaced the cache
Writers == {r \in Requesters : tokenRequests[r].wrote > 0}

\* the request whose replacement of the cache completed last
LastWriter == CHOOSE r \in Writers : tokenRequests[r].wrote = Installs

\* C17: requests that find the cached token expired regenerate each on its
\* own; once any of them has replaced the cache, the cache holds exactly the
\* {token, issued-at} pair of the replacement that completed last, the token
\* of every other regeneration is not in the cache, and every request that
\* has ended got one whole token with the issued-at time of its signing.
C17_LastWriteStays ==
    signer.some =>
        /\ Writers # {} =>
              /\ signer.v.cache = Some([token |-> tokenRequests[LastWriter].token,
                                        issued_at |-> tokenRequests[LastWriter].issued_at])
              /\ \A r \in Writers \ {LastWriter} :
                    tokenRequests[r].token # signer.v.cache.v.token
        /\ \A r \in Requesters :
              tokenRequests[r].pc = "done" =>
                  /\ IsCompleteToken(tokenRequests[r].token)
                  /\ IssuedAtClaim(tokenRequests[r].token) = tokenRequests[r].issued_at
                  /\ tokenRequests[r].issued_at <= now

\* every request found the token expired before any replacement of the
\* cache, all of them have regenerated and ended, and the cache holds the
\* pair of the last replacement
C17_Witness ==
    /\ signer.some
    /\ \A r \in Requesters :
          /\ tokenRequests[r].pc = "done"
          /\ tokenRequests[r].found = 0
          /\ tokenRequests[r].wrote > 0
    /\ Installs = MaxRequesters
    /\ signer.v.cache.v.token = tokenRequests[LastWriter].token
    /\ \E r \in Writers : tokenRequests[r].token # signer.v.cache.v.token

----------------------------------------------------------------------------
(* The future of a send that is polled later than send was called *)

\* the sends of one client and their futures as time passes
NextLater ==
    \/ Tick
    \/ SendAny(ClockPayloads)
    \/ TransmitInvalid
    \/ TransmitFails
    \/ \E status \in CallStatuses, apns_id \in CallReplyHeaders : Transmit(status, apns_id)
    \/ ReadBodyFails
    \/ \E bytes \in CallBodies : ReadBody(bytes)
    \/ Drop

SpecLater == Init /\ [][NextLater]_vars

\* the future of the call exists and has not ended
FuturePending == pc \in {"built", "reading"}

\* C18: when send returns, the request is complete (method, URL, headers,
\* body), and with a Signer its Authorization header holds the token the
\* Signer answered with at the time of the call, a token that was within
\* its validity window then; while the future is pending, however late it is
\* polled and whether or not it is dropped, no step changes the request, the
\* Signer's cache or the number of signatures.
C18_RequestAssembledAtCall ==
    /\ [](pc = "built" =>
            /\ request.some
            /\ request.v.valid =>
                  /\ request.v.method = "POST" /\ request.v.url # ""
                  /\ request.v.body.some
                  /\ request.v.headers["content-length"].some
            /\ (request.v.valid /\ signer.some) =>
                  /\ lastTok.some /\ lastTok.v.at <= now
                  /\ request.v.headers["authorization"]
                        = Some("Bearer " \o lastTok.v.token)
                  /\ lastTok.v.at - IssuedAtClaim(lastTok.v.token) <= signature_ttl
                  /\ signer.v.cache.some
                  /\ signer.v.cache.v.token = lastTok.v.token)
    /\ [][FuturePending =>
            /\ signer' = signer
            /\ signatures' = signatures
            /\ lastTok' = lastTok
            /\ (pc' = "built" => request' = request)]_vars

\* the future of a send is still pending, not polled to its end, when the
\* token its request carries has expired; the request holds that token and
\* the Signer has signed nothing since the call
C18_Witness ==
    /\ pc = "built"
    /\ request.v.valid
    /\ signer.some
    /\ lastTok.some
    /\ now > lastTok.v.at
    /\ now - IssuedAtClaim(lastTok.v.token) > signature_ttl
    /\ request.v.headers["authorization"] = Some("Bearer " \o lastTok.v.token)
    /\ signatures = lastTok.v.signatures
    /\ signer.v.cache.v.token = lastTok.v.token

====
